---- MODULE Spec2Model ----
(***************************************************************************)
(* The synthetic red-square dataset generator (generate_dataset3.py), the   *)
(* detection scripts around it (helloTest.py, helloTest2.py,               *)
(* predict_with_trained_model5.py) and the training script with its two    *)
(* exports (train_custom_yolo4.py).                                        *)
(*                                                                         *)
(* Python floats are modelled by exact fractions <<numerator, denominator>>*)
(* with a positive denominator; every float the generator computes is the  *)
(* correctly rounded quotient of two small integers, so order comparisons  *)
(* against 0 and 1 agree with the exact ones.                              *)
(*                                                                         *)
(* A random draw is a nondeterministic choice.  The set a draw ranges over *)
(* is written in full (RandInt, NpRandInt, ...); the model explores the    *)
(* extreme values of each range (Ends).                                    *)
(***************************************************************************)
EXTENDS Integers, Sequences, FiniteSets, TLC

VARIABLES
    pc,               \* control position of the running program
    img_size,         \* argument img_size
    num_squares,      \* argument num_squares of generate_red_square_image
    num_train,        \* argument num_train of save_dataset
    num_val,          \* argument num_val of save_dataset
    i,                \* loop index of save_dataset
    frame,            \* local variables of the running generate_red_square_image
    remaining,        \* iterations left of its `for _ in range(num_squares)`
    result,           \* what the latest generate_red_square_image call returned
    random_state,     \* state of the process-wide `random` generator
    np_random_state,  \* state of the process-wide `np.random` generator
    files,            \* the filesystem: path -> content
    script,           \* the detection script that runs, if one does
    console,          \* the messages a detection script has printed
    steps,            \* the library and file operations it has performed
    detected,         \* the detections its last inference or contour search gave
    draws,            \* the draws the random source handed to the latest call
    earlier,          \* what the call before the latest one returned
    results,          \* local variable results of train_square_detector
    returned          \* what train_square_detector returned

script_vars == <<script, console, steps, detected>>
replay_vars == <<draws, earlier>>
train_vars == <<results, returned>>

vars == <<pc, img_size, num_squares, num_train, num_val, i, frame, remaining,
          result, random_state, np_random_state, files, script_vars,
          replay_vars, train_vars>>

\* ------------------------------------------------------------ bounds

\* Largest explicit num_squares a direct call is given.
MaxSquares == 2
\* Largest num_train / num_val save_dataset is given.
MaxTrain == 2
MaxVal == 1
\* Canvas sizes explored.
ImgSizes == {50, 100, 200, 640}

\* ------------------------------------------------------------ helpers

\* num_squares=None, the default argument.
None == -1

\* The range of an integer draw is the pair <<lowest, highest>>.
Values(range) == range[1] .. range[2]
Empty(range) == range[1] > range[2]
\* The extreme values of a draw's range (none when the range is empty).
Ends(range) == IF Empty(range) THEN {} ELSE {range[1], range[2]}

\* random.randint(a, b): both ends included; empty when a > b (ValueError).
RandInt(a, b) == <<a, b>>
\* np.random.randint(low, high): high is excluded.
NpRandInt(low, high) == <<low, high - 1>>
\* random.choice(seq): an index of seq.
Choice(seq) == <<1, Len(seq)>>

\* Floats as exact fractions.
IntF(n) == <<n, 1>>
FAdd(a, b) == <<a[1] * b[2] + b[1] * a[2], a[2] * b[2]>>
TrueDiv(a, b) == <<a[1] * b[2], a[2] * b[1]>>
FLt(a, b) == a[1] * b[2] < b[1] * a[2]
FLe(a, b) == a[1] * b[2] <= b[1] * a[2]
FEq(a, b) == a[1] * b[2] = b[1] * a[2]

\* ------------------------------------------------------------ generate_red_square_image

\* Lines 24-28: the ranges of the three background channels (B, G, R).
BgRange(ch) == IF ch = 3 THEN RandInt(50, 150) ELSE RandInt(100, 255)

\* Line 32: the range of one noise value.
NoiseRange == NpRandInt(-30, 30)

\* ndarray.astype(np.int16): two's complement wraparound into -32768..32767.
AsInt16(v) == ((v + 32768) % 65536) - 32768
\* ndarray.astype(np.uint8): wraparound modulo 256.
AsUint8(v) == v % 256
\* Mutant of Clip: the sum is cast without being clipped.
Clip_Missing(v, lo, hi) == v
\* np.clip(v, lo, hi)
Clip(v, lo, hi) == IF v < lo THEN lo ELSE IF v > hi THEN hi ELSE v

\* Line 33 for one channel of one pixel holding bg, with the noise value n.
NoisyPixel(bg, n) == AsUint8(Clip(AsInt16(AsInt16(AsUint8(bg)) + n), 0, 255))

\* The channels of the canvas the model observes: B (G has the same range) and R.
ProbeChannels == {1, 3}

\* Lines 50-56.
red_variations == << <<30, 30, 255>>, <<50, 50, 230>>, <<40, 80, 255>>,
                     <<20, 20, 200>>, <<60, 60, 255>> >>

\* Line 63: random.random() is a float in [0, 1); the values explored.
RandomSamples == { <<0, 1>>, <<1, 2>>, <<999, 1000>> }

\* Line 65.
BorderColor(red_color) == [c \in 1..3 |-> red_color[c] - 50]

\* cv2.rectangle(image, pt1, pt2, color, thickness): one call.
Rectangle(pt1, pt2, color, thickness) ==
    [pt1 |-> pt1, pt2 |-> pt2, color |-> color, thickness |-> thickness]

\* Mutant of Label: the origin is taken for the centre.
Label_Origin(size, x, y, square_size) ==
    << 0,
       TrueDiv(IntF(x), IntF(size)),
       TrueDiv(IntF(y), IntF(size)),
       TrueDiv(IntF(square_size), IntF(size)),
       TrueDiv(IntF(square_size), IntF(size)) >>

\* Lines 69-74: the annotation of one square.
Label(size, x, y, square_size) ==
    << 0,
       TrueDiv(FAdd(IntF(x), TrueDiv(IntF(square_size), IntF(2))), IntF(size)),
       TrueDiv(FAdd(IntF(y), TrueDiv(IntF(square_size), IntF(2))), IntF(size)),
       TrueDiv(IntF(square_size), IntF(size)),
       TrueDiv(IntF(square_size), IntF(size)) >>

\* The canvas is modelled by its shape, by one channel of one pixel of the
\* noisy background (`probe`: its background value, its noise and its value
\* after line 33) and by the boxes <<pt1, pt2>> of the filled squares painted
\* on it, in paint order.  `painted` holds the cv2.rectangle calls of the
\* latest loop iteration; nrand and nnp count the draws the call has taken
\* from `random` and from `np.random`.

\* Lines 24-33: the local state after the background and the noise, when the
\* observed channel ch was drawn as bg and its noise as n.
BackgroundOf(size, ch, bg, n) ==
    [raised  |-> FALSE,
     image   |-> [shape |-> <<size, size, 3>>,
                  probe |-> [channel |-> ch, bg |-> bg, noise |-> n,
                             value |-> NoisyPixel(bg, n)],
                  boxes |-> << >>],
     labels  |-> << >>,
     painted |-> << >>,
     nrand   |-> 3,
     nnp     |-> size * size * 3]

\* Lines 24-33: the local states after the background and the noise.
Background(size) ==
    UNION { { BackgroundOf(size, ch, bg, n)
              : bg \in Ends(BgRange(ch)), n \in Ends(NoiseRange) }
            : ch \in ProbeChannels }

\* Mutant of SquareCounts: `if not num_squares`, which takes 0 for None.
SquareCounts_Falsy(n) ==
    IF n = None \/ n = 0 THEN Values(RandInt(1, 3)) ELSE {n}
\* Line 37: the draws it takes.
CountDraws(n) == IF n = None THEN 1 ELSE 0
\* Lines 36-37: the values num_squares can take after them.
SquareCounts(n) == IF n = None THEN Values(RandInt(1, 3)) ELSE {n}

\* Mutant of OriginRange: coordinates counted from 1.
OriginRange_OneBased(size, square_size) == RandInt(1, size - square_size + 1)
\* Lines 46-47: the range of an origin coordinate.
OriginRange(size, square_size) == RandInt(0, size - square_size)

\* Mutant of DrawSquare: the annotation is put first, not last.
DrawSquare_Prepend(size, s, square_size, x, y, red_color, r) ==
    [s EXCEPT !.image.boxes = Append(@, <<<<x, y>>,
                                         <<x + square_size, y + square_size>>>>),
              !.painted = << >>,
              !.labels = <<Label(size, x, y, square_size)>> \o @,
              !.nrand = @ + 5]

\* Lines 59-74: one square painted and annotated.
DrawSquare(size, s, square_size, x, y, red_color, r) ==
    LET pt1    == <<x, y>>
        pt2    == <<x + square_size, y + square_size>>
        fill   == Rectangle(pt1, pt2, red_color, -1)
        border == Rectangle(pt1, pt2, BorderColor(red_color), 2)
    IN [s EXCEPT !.image.boxes = Append(@, <<pt1, pt2>>),
                 !.painted = IF FLt(<<1, 2>>, r) THEN <<fill, border>>
                                                 ELSE <<fill>>,
                 !.labels = Append(@, Label(size, x, y, square_size)),
                 !.nrand = @ + 5]

\* Lines 41-74: the local states one iteration of the loop can lead to.
LoopBody(size, s) ==
    IF s.raised THEN {s}
    ELSE UNION {
        IF Empty(OriginRange(size, square_size))
        THEN \* line 46: random.randint raises ValueError, after one draw
             { [s EXCEPT !.raised = TRUE, !.nrand = @ + 1] }
        ELSE { DrawSquare(size, s, square_size, x, y, red_variations[c], r)
               : x \in Ends(OriginRange(size, square_size)),
                 y \in Ends(OriginRange(size, square_size)),
                 c \in Ends(Choice(red_variations)),
                 r \in RandomSamples }
        : square_size \in Ends(RandInt(50, 200)) }

\* Line 76: what the caller receives.
NoImage == [shape |-> <<0, 0, 3>>,
            probe |-> [channel |-> 1, bg |-> 0, noise |-> 0, value |-> 0],
            boxes |-> << >>]
NoFrame == [raised |-> FALSE, image |-> NoImage, labels |-> << >>,
            painted |-> << >>, nrand |-> 0, nnp |-> 0]
NoResult == [status |-> "none", image |-> NoImage, labels |-> << >>]
Returned(s) == [status |-> "returned", image |-> s.image, labels |-> s.labels]
Raised == [status |-> "raised", image |-> NoImage, labels |-> << >>]

\* ------------------------------------------------------------ the filesystem

\* A path: its directory, and the file name in three parts (the text before
\* the number, the number's digits, the extension).  A directory has no name.
Path(dir, stem, index, ext) ==
    [dir |-> dir, stem |-> stem, index |-> index, ext |-> ext]
Dir(dir) == Path(dir, "", << >>, "")

\* What a path holds: a directory, an image file or a text file.
DirEntry == [kind |-> "dir", shape |-> <<0, 0, 0>>, lines |-> << >>]
\* cv2.imwrite: a lossy encoding of the canvas, which keeps its shape.
JpegFile(image) == [kind |-> "jpeg", shape |-> image.shape, lines |-> << >>]
TextFile(lines) == [kind |-> "text", shape |-> <<0, 0, 0>>, lines |-> lines]

\* The empty filesystem.
NoFiles == [q \in {} |-> DirEntry]

\* A whole-file write: the path is created or its content replaced.
Write(fs, path, content) ==
    [q \in DOMAIN fs \cup {path} |-> IF q = path THEN content ELSE fs[q]]

\* Path(..).mkdir(parents=True, exist_ok=True): the directory and its parents.
Mkdir(fs, dir) ==
    LET made == { Dir(SubSeq(dir, 1, k)) : k \in 1 .. Len(dir) }
    IN [q \in DOMAIN fs \cup made |-> IF q \in DOMAIN fs THEN fs[q] ELSE DirEntry]

\* ------------------------------------------------------------ a direct call

\* The draws of no call: nothing from `random`, nothing from `np.random`.
NoDraws == [random |-> << >>, noise |-> 0]

\* No call is replayed.
NoReplay ==
    /\ draws = NoDraws
    /\ earlier = NoResult

\* train_square_detector does not run.
NoTraining ==
    /\ results = None
    /\ returned = None

\* No detection script runs.
NoScript ==
    /\ script = "none"
    /\ console = << >>
    /\ steps = << >>
    /\ detected = << >>

Init ==
    /\ pc = "generate"
    /\ img_size \in ImgSizes
    /\ num_squares \in {None} \cup (0 .. MaxSquares)
    /\ num_train = 0
    /\ num_val = 0
    /\ i = 0
    /\ frame = NoFrame
    /\ remaining = 0
    /\ result = NoResult
    /\ random_state = 0
    /\ np_random_state = 0
    /\ files = NoFiles
    /\ NoScript
    /\ NoReplay
    /\ NoTraining

\* Lines 24-33.
GenBackground ==
    /\ pc = "generate"
    /\ \E s \in Background(img_size) :
          /\ frame' = s
          /\ random_state' = random_state + s.nrand
          /\ np_random_state' = np_random_state + s.nnp
    /\ pc' = "count"
    /\ UNCHANGED <<train_vars, replay_vars, script_vars, img_size, num_squares, num_train, num_val, i, remaining,
                   result, files>>

\* Lines 36-39.
GenCount ==
    /\ pc = "count"
    /\ \E k \in SquareCounts(num_squares) : remaining' = k
    /\ frame' = [frame EXCEPT !.nrand = @ + CountDraws(num_squares)]
    /\ random_state' = random_state + CountDraws(num_squares)
    /\ pc' = "loop"
    /\ UNCHANGED <<train_vars, replay_vars, script_vars, img_size, num_squares, num_train, num_val, i, result,
                   np_random_state, files>>

\* Lines 41-74: one iteration.
GenSquare ==
    /\ pc = "loop"
    /\ remaining > 0
    /\ \E s \in LoopBody(img_size, frame) :
          /\ frame' = s
          /\ random_state' = random_state + (s.nrand - frame.nrand)
          /\ IF s.raised
             THEN /\ pc' = "raised"
                  /\ result' = Raised
                  /\ remaining' = remaining
             ELSE /\ pc' = "loop"
                  /\ result' = result
                  /\ remaining' = remaining - 1
    /\ UNCHANGED <<train_vars, replay_vars, script_vars, img_size, num_squares, num_train, num_val, i,
                   np_random_state, files>>

\* Mutant of GenReturn: the canvas is also dumped to a file.
GenReturn_Dump ==
    /\ pc = "loop"
    /\ remaining = 0
    /\ result' = Returned(frame)
    /\ pc' = "done"
    /\ files' = Write(files, Path(<<"debug">>, "canvas", << >>, ".jpg"),
                      JpegFile(frame.image))
    /\ UNCHANGED <<train_vars, replay_vars, script_vars, img_size, num_squares, num_train, num_val, i, frame,
                   remaining, random_state, np_random_state>>

\* Line 76.
GenReturn ==
    /\ pc = "loop"
    /\ remaining = 0
    /\ result' = Returned(frame)
    /\ pc' = "done"
    /\ UNCHANGED <<train_vars, replay_vars, script_vars, img_size, num_squares, num_train, num_val, i, frame,
                   remaining, random_state, np_random_state, files>>

generate_red_square_image ==
    GenBackground \/ GenCount \/ GenSquare \/ GenReturn

Next == generate_red_square_image

Spec == Init /\ [][Next]_vars

\* ------------------------------------------------------------ save_dataset

\* A whole call of generate_red_square_image, as its caller runs it.
RECURSIVE Loop(_, _, _)
Loop(size, S, n) ==
    IF n = 0 THEN S
    ELSE Loop(size, UNION { LoopBody(size, s) : s \in S }, n - 1)

\* What save_dataset uses of a call that ended in the local state s: whether
\* it raised, the canvas (of which a file keeps the shape), the annotations,
\* and the draws it took.
Call(s) ==
    [raised |-> s.raised,
     image  |-> IF s.raised THEN NoImage
                ELSE [NoImage EXCEPT !.shape = s.image.shape],
     labels |-> IF s.raised THEN << >> ELSE s.labels,
     nrand  |-> s.nrand,
     nnp    |-> s.nnp]

\* Lines 10-76: every call generate_red_square_image(size, n).
Calls(size, n) ==
    UNION { { Call(s)
              : s \in Loop(size, { [s0 EXCEPT !.nrand = @ + CountDraws(n)] }, k) }
            : s0 \in Background(size), k \in SquareCounts(n) }

\* The arguments <<num_train, num_val, img_size>> explored: every pair of
\* counts on the smallest canvas, where a 200-pixel square raises, and one
\* labelled sample on a canvas every square fits in.
SaveInputs ==
    { <<nt, nv, 50>> : nt \in 0 .. MaxTrain, nv \in 0 .. MaxVal }
        \cup { <<1, 0, 200>>, <<0, 1, 200>> }
SaveCalls == [size \in { a[3] : a \in SaveInputs } |-> Calls(size, None)]
\* Line 144, `image, _ = ...`: the same calls with the annotations dropped.
TestCalls ==
    [size \in DOMAIN SaveCalls |->
        { [call EXCEPT !.labels = << >>] : call \in SaveCalls[size] }]

RECURSIVE Digits(_)
\* The decimal digits of n >= 0.
Digits(n) == IF n < 10 THEN <<n>> ELSE Append(Digits(n \div 10), n % 10)
\* f"{n:04d}": the digits, zero-padded to at least 4.
Format04d(n) ==
    LET ds  == Digits(n)
        pad == IF Len(ds) < 4 THEN 4 - Len(ds) ELSE 0
    IN [k \in 1 .. (pad + Len(ds)) |-> IF k <= pad THEN 0 ELSE ds[k - pad]]

\* f"{v:.6f}" of a float v >= 0: the number of millionths printed, the
\* nearest to v (the even one at a tie, which then is an exact float).
Format6f(v) ==
    LET n == v[1] * 1000000
        q == n \div v[2]
        r == n % v[2]
    IN IF 2 * r > v[2] \/ (2 * r = v[2] /\ q % 2 = 1) THEN q + 1 ELSE q

\* Mutant of LabelLines: the first annotation is not written.
LabelLines_SkipFirst(labels) ==
    [k \in 1 .. (Len(labels) - 1) |->
        << labels[k + 1][1], Format6f(labels[k + 1][2]),
           Format6f(labels[k + 1][3]), Format6f(labels[k + 1][4]),
           Format6f(labels[k + 1][5]) >>]

\* Lines 109-110 and 130-131: one line per annotation.
LabelLines(labels) ==
    [k \in 1 .. Len(labels) |->
        << labels[k][1], Format6f(labels[k][2]), Format6f(labels[k][3]),
           Format6f(labels[k][4]), Format6f(labels[k][5]) >>]

\* Lines 103 and 124, 107 and 128: the two files of sample n of a split.
ImagePath(split, n) ==
    Path(<<"dataset", "images", split>>, split, Format04d(n), ".jpg")
LabelPath(split, n) ==
    Path(<<"dataset", "labels", split>>, split, Format04d(n), ".txt")
\* Line 145.
TestPath(n) == Path(<<"test_images">>, "test_image", Digits(n + 1), ".jpg")

\* A filesystem left by an earlier run: sample 0 of the training split.
StaleFiles ==
    Write(Write(Mkdir(Mkdir(NoFiles, <<"dataset", "images", "train">>),
                      <<"dataset", "labels", "train">>),
                ImagePath("train", 0), JpegFile(NoImage)),
          LabelPath("train", 0),
          TextFile(<< <<0, 500000, 500000, 1000000, 1000000>>,
                      <<0, 500000, 500000, 1000000, 1000000>>,
                      <<0, 500000, 500000, 1000000, 1000000>> >>))

InitSave ==
    /\ pc = "save"
    /\ \E a \in SaveInputs :
          /\ num_train = a[1]
          /\ num_val = a[2]
          /\ img_size = a[3]
    /\ num_squares = None
    /\ i = 0
    /\ frame = NoFrame
    /\ remaining = 0
    /\ result = NoResult
    /\ random_state = 0
    /\ np_random_state = 0
    /\ files \in {NoFiles, StaleFiles}
    /\ NoScript
    /\ NoReplay
    /\ NoTraining

\* Lines 91-94.
SaveMkdirs ==
    /\ pc = "save"
    /\ files' = Mkdir(Mkdir(Mkdir(Mkdir(files,
                    <<"dataset", "images", "train">>),
                    <<"dataset", "labels", "train">>),
                    <<"dataset", "images", "val">>),
                    <<"dataset", "labels", "val">>)
    /\ pc' = "train"
    /\ i' = 0
    /\ UNCHANGED <<train_vars, replay_vars, script_vars, img_size, num_squares, num_train, num_val, frame,
                   remaining, result, random_state, np_random_state>>

\* Lines 99-110 and 120-131: sample i of a split generated and saved.  The
\* call's exception, if any, leaves save_dataset.
SaveSample(split) ==
    /\ \E call \in SaveCalls[img_size] :
          /\ random_state' = random_state + call.nrand
          /\ np_random_state' = np_random_state + call.nnp
          /\ IF call.raised
             THEN /\ pc' = "raised"
                  /\ UNCHANGED <<i, result, files>>
             ELSE /\ result' = [status |-> "returned", image |-> call.image,
                                labels |-> call.labels]
                  /\ files' = Write(Write(files, ImagePath(split, i),
                                          JpegFile(call.image)),
                                    LabelPath(split, i),
                                    TextFile(LabelLines(call.labels)))
                  /\ i' = i + 1
                  /\ pc' = pc
    /\ UNCHANGED <<train_vars, replay_vars, script_vars, img_size, num_squares, num_train, num_val, frame,
                   remaining>>

\* Lines 98-113.
SaveTrain ==
    /\ pc = "train"
    /\ i < num_train
    /\ SaveSample("train")

\* Lines 115-118.
SaveTrainDone ==
    /\ pc = "train"
    /\ i = num_train
    /\ pc' = "val"
    /\ i' = 0
    /\ UNCHANGED <<train_vars, replay_vars, script_vars, img_size, num_squares, num_train, num_val, frame,
                   remaining, result, random_state, np_random_state, files>>

\* Lines 119-134.
SaveVal ==
    /\ pc = "val"
    /\ i < num_val
    /\ SaveSample("val")

\* Lines 136-141.
SaveValDone ==
    /\ pc = "val"
    /\ i = num_val
    /\ files' = Mkdir(files, <<"test_images">>)
    /\ pc' = "test"
    /\ i' = 0
    /\ UNCHANGED <<train_vars, replay_vars, script_vars, img_size, num_squares, num_train, num_val, frame,
                   remaining, result, random_state, np_random_state>>

\* Lines 143-146: test image i + 1; its annotations are dropped.
SaveTest ==
    /\ pc = "test"
    /\ i < 5
    /\ \E call \in TestCalls[img_size] :
          /\ random_state' = random_state + call.nrand
          /\ np_random_state' = np_random_state + call.nnp
          /\ IF call.raised
             THEN /\ pc' = "raised"
                  /\ UNCHANGED <<i, result, files>>
             ELSE /\ result' = [result EXCEPT !.status = "returned",
                                              !.image = call.image]
                  /\ files' = Write(files, TestPath(i), JpegFile(call.image))
                  /\ i' = i + 1
                  /\ pc' = pc
    /\ UNCHANGED <<train_vars, replay_vars, script_vars, img_size, num_squares, num_train, num_val, frame,
                   remaining>>

\* Lines 148-161.
SaveTestDone ==
    /\ pc = "test"
    /\ i = 5
    /\ pc' = "saved"
    /\ UNCHANGED <<train_vars, replay_vars, script_vars, img_size, num_squares, num_train, num_val, i, frame,
                   remaining, result, random_state, np_random_state, files>>

save_dataset ==
    \/ SaveMkdirs
    \/ SaveTrain
    \/ SaveTrainDone
    \/ SaveVal
    \/ SaveValDone
    \/ SaveTest
    \/ SaveTestDone

SpecSave == InitSave /\ [][save_dataset]_vars

\* ------------------------------------------------------------ the detection scripts

\* Most image files the input directory holds.
MaxImages == 2
\* Most boxes an inference returns.
MaxBoxes == 2
\* Most contours cv2.findContours returns.
MaxContours == 2

\* The functions that run a detection.
Scripts == {"detect_red_square", "helloTest.main", "predict_single_image",
            "predict_batch_images", "predict_with_onnx"}

\* The variables a detection script leaves alone.
call_vars == <<img_size, num_squares, num_train, num_val, frame, remaining,
               result, random_state, np_random_state>>

\* helloTest.py line 30.
TttPath == Path(<< >>, "ttt", << >>, ".png")
\* helloTest.py line 46.
Yolo12n == Path(<< >>, "yolo12n", << >>, ".pt")
\* predict_with_trained_model5.py line 183.
BestPt == Path(<<"runs", "train", "square_detector", "weights">>, "best",
               << >>, ".pt")
\* predict_with_trained_model5.py line 202.
BestOnnx == Path(<<"runs", "train", "square_detector", "weights">>, "best",
                 << >>, ".onnx")

\* The image a script is given: "ttt.png", or "test_images/test_image_1.jpg".
image_path(name) == IF name = "helloTest.main" THEN TttPath ELSE TestPath(0)
\* The weights a script loads.
model_path ==
    [name \in Scripts \ {"detect_red_square"} |->
        IF name = "helloTest.main" THEN Yolo12n
        ELSE IF name = "predict_with_onnx" THEN BestOnnx
        ELSE BestPt]
\* The directory predict_batch_images is given, and where predictions go.
images_dir == <<"test_images">>
save_dir == <<"predictions">>

\* helloTest2.py line 9, helloTest.py line 143: the annotated picture.
output_path(name) ==
    IF name = "helloTest.main" THEN Path(<< >>, "ttt_detected", << >>, ".png")
    ELSE Path(<< >>, "red_square_detected", << >>, ".png")
\* predict_with_trained_model5.py lines 47-48 and 135:
\* f"{save_dir}/{stem}_detected{suffix}".
save_path(image_file) ==
    [image_file EXCEPT !.dir = save_dir,
                       !.ext = IF @ = ".png" THEN "_detected.png"
                                             ELSE "_detected.jpg"]

\* A weights file, a picture a decoder accepts and a file it does not.
WeightsFile == [kind |-> "weights", shape |-> <<0, 0, 0>>, lines |-> << >>]
PngFile(shape) == [kind |-> "png", shape |-> shape, lines |-> << >>]
Picture == JpegFile([NoImage EXCEPT !.shape = <<200, 200, 3>>])
Garbage == TextFile(<< >>)
Decodable(file) == file.kind \in {"jpeg", "png"}

\* The input images of a script when n of them exist.
InputImages(name, n) ==
    IF name = "helloTest.main" THEN (IF n > 0 THEN {TttPath} ELSE {})
    ELSE { TestPath(k) : k \in 0 .. (n - 1) }

\* The filesystem a script starts in: n input images, the first of them
\* undecodable or not, and the weights present or not.
ScriptFiles(name, n, garbage, weights) ==
    LET imgs == InputImages(name, n)
        w == IF weights /\ name \in DOMAIN model_path
             THEN {model_path[name]} ELSE {}
    IN [q \in imgs \cup w |->
           IF q \in w THEN WeightsFile
           ELSE IF garbage /\ q = image_path(name) THEN Garbage
           ELSE Picture]

\* predict_with_trained_model5.py lines 102-107: the image files of a
\* directory, in the order of their numbers.
image_extensions == {".jpg", ".jpeg", ".png", ".bmp"}
image_files(fs) ==
    LET found == { q \in DOMAIN fs :
                      q.dir = images_dir /\ q.ext \in image_extensions }
    IN [k \in 1 .. Cardinality(found) |-> TestPath(k - 1)]

\* A console message: what it reports and the numbers it prints.
Msg(tag, n, v) == <<tag, n, v>>
Report(tag) == Msg(tag, 0, 0)

\* YOLO(path): the outcomes of loading weights.  The released "yolo12n.pt" is
\* downloaded when it is absent, which succeeds or raises; any other absent
\* file raises.
Load(fs, path) ==
    IF path \in DOMAIN fs THEN {"loaded"}
    ELSE IF path = Yolo12n THEN {"downloaded", "raised"}
    ELSE {"raised"}

\* The boxes an inference can return: their classes.
Detections(classes) ==
    UNION { [1 .. n -> classes] : n \in 0 .. MaxBoxes }
\* helloTest.py line 75 and a class that is no dog; the custom model's class.
CocoClasses == {0, 16}
SquareClasses == {0}
Classes(name) == IF name = "helloTest.main" THEN CocoClasses ELSE SquareClasses

\* model(path): the outcomes of an inference.  An absent source raises; an
\* undecodable one raises or gives no result at all; a picture gives one
\* result.
Failure == [raised |-> TRUE, results |-> << >>]
Results(rs) == [raised |-> FALSE, results |-> rs]
Inference(fs, path, classes) ==
    IF path \notin DOMAIN fs THEN {Failure}
    ELSE IF ~Decodable(fs[path]) THEN {Failure, Results(<< >>)}
    ELSE { Results(<<boxes>>) : boxes \in Detections(classes) }

\* cv2.findContours: the areas of the contours found, in contour order.
Areas == {499, 500, 2500}
Contours == UNION { [1 .. n -> Areas] : n \in 0 .. MaxContours }

RECURSIVE SquareLoop_Above(_, _)
\* Mutant of SquareLoop: `if area <= 500: continue`.
SquareLoop_Above(contours, s) ==
    IF contours = << >> THEN s
    ELSE LET area == Head(contours)
         IN SquareLoop_Above(Tail(contours),
                IF area <= 500 THEN s
                ELSE [square_count |-> s.square_count + 1,
                      printed |-> Append(s.printed,
                                     Msg("square", s.square_count + 1, area))])

RECURSIVE SquareLoop(_, _)
\* helloTest2.py lines 71-132: the count and the messages after the contours.
SquareLoop(contours, s) ==
    IF contours = << >> THEN s
    ELSE LET area == Head(contours)
         IN SquareLoop(Tail(contours),
                IF area < 500 THEN s
                ELSE [square_count |-> s.square_count + 1,
                      printed |-> Append(s.printed,
                                     Msg("square", s.square_count + 1, area))])

RECURSIVE DogLoop(_, _)
\* helloTest.py lines 76-135: the count and the messages after the boxes.
DogLoop(boxes, s) ==
    IF boxes = << >> THEN s
    ELSE LET class_id == Head(boxes)
         IN DogLoop(Tail(boxes),
                IF class_id = 16
                THEN [dog_count |-> s.dog_count + 1,
                      printed |-> Append(s.printed,
                                     Msg("dog", s.dog_count + 1, class_id))]
                ELSE s)

RECURSIVE SaveResults(_, _, _)
\* predict_with_trained_model5.py lines 45-81 and 134-144: every result is
\* saved, then its boxes are counted and reported.
SaveResults(rs, image_file, s) ==
    IF rs = << >> THEN s
    ELSE LET boxes == Head(rs)
         IN SaveResults(Tail(rs), image_file,
                [fs      |-> Write(s.fs, save_path(image_file), Picture),
                 done    |-> Append(s.done, "write"),
                 printed |-> s.printed \o
                     << IF Len(boxes) = 0 THEN Report("no_detection")
                        ELSE Msg("found", Len(boxes), 0),
                        Report("saved") >>])

InitScripts ==
    /\ script \in Scripts
    /\ pc = "check"
    /\ \E n \in 0 .. MaxImages, garbage \in BOOLEAN, weights \in BOOLEAN :
          files = ScriptFiles(script, n, garbage, weights)
    /\ console = << >>
    /\ steps = << >>
    /\ detected = << >>
    /\ i = 0
    /\ img_size = 200
    /\ num_squares = None
    /\ num_train = 0
    /\ num_val = 0
    /\ frame = NoFrame
    /\ remaining = 0
    /\ result = NoResult
    /\ random_state = 0
    /\ np_random_state = 0
    /\ NoReplay
    /\ NoTraining

\* helloTest2.py lines 28-30.
DetectCheck ==
    /\ script = "detect_red_square"
    /\ pc = "check"
    /\ IF image_path(script) \notin DOMAIN files
       THEN /\ console' = Append(console, Report("missing_image"))
            /\ pc' = "returned"
       ELSE /\ console' = console
            /\ pc' = "read"
    /\ UNCHANGED <<script, steps, detected, files, i, call_vars, replay_vars, train_vars>>

\* helloTest2.py lines 33-38.
DetectRead ==
    /\ script = "detect_red_square"
    /\ pc = "read"
    /\ steps' = Append(steps, "imread")
    /\ IF ~Decodable(files[image_path(script)])
       THEN /\ console' = Append(console, Report("decode_failure"))
            /\ pc' = "returned"
       ELSE /\ console' = console
            /\ pc' = "contours"
    /\ UNCHANGED <<script, detected, files, i, call_vars, replay_vars, train_vars>>

\* helloTest2.py lines 42-132.
DetectContours ==
    /\ script = "detect_red_square"
    /\ pc = "contours"
    /\ \E contours \in Contours :
          /\ detected' = <<contours>>
          /\ console' = console \o
                 SquareLoop(contours, [square_count |-> 0,
                                       printed |-> << >>]).printed
    /\ steps' = Append(steps, "findContours")
    /\ pc' = "summary"
    /\ UNCHANGED <<script, files, i, call_vars, replay_vars, train_vars>>

\* helloTest2.py lines 135-151.
DetectSummary ==
    /\ script = "detect_red_square"
    /\ pc = "summary"
    /\ LET square_count ==
               SquareLoop(detected[1], [square_count |-> 0,
                                        printed |-> << >>]).square_count
       IN IF square_count > 0
          THEN /\ files' = Write(files, output_path(script),
                                 PngFile(files[image_path(script)].shape))
               /\ steps' = Append(steps, "write")
               /\ console' = console \o << Msg("found", square_count, 0),
                                           Report("saved") >>
          ELSE /\ console' = Append(console, Report("no_detection"))
               /\ UNCHANGED <<files, steps>>
    /\ pc' = "returned"
    /\ UNCHANGED <<script, detected, i, call_vars, replay_vars, train_vars>>

\* helloTest.py lines 33-35.
HelloCheck ==
    /\ script = "helloTest.main"
    /\ pc = "check"
    /\ IF image_path(script) \notin DOMAIN files
       THEN /\ console' = Append(console, Report("missing_image"))
            /\ pc' = "returned"
       ELSE /\ console' = console
            /\ pc' = "load"
    /\ UNCHANGED <<script, steps, detected, files, i, call_vars, replay_vars, train_vars>>

\* helloTest.py lines 38-56.
HelloLoad ==
    /\ script = "helloTest.main"
    /\ pc = "load"
    /\ steps' = Append(steps, "load_model")
    /\ \E outcome \in Load(files, model_path[script]) :
          /\ files' = IF outcome = "downloaded"
                      THEN Write(files, model_path[script], WeightsFile)
                      ELSE files
          /\ pc' = IF outcome = "raised" THEN "raised" ELSE "infer"
    /\ UNCHANGED <<script, console, detected, i, call_vars, replay_vars, train_vars>>

\* helloTest.py lines 59-69: without a first result, line 66 raises.
HelloInfer ==
    /\ script = "helloTest.main"
    /\ pc = "infer"
    /\ \E outcome \in Inference(files, image_path(script), Classes(script)) :
          IF outcome.raised \/ outcome.results = << >>
          THEN /\ steps' = Append(steps, "inference")
               /\ pc' = "raised"
               /\ UNCHANGED detected
          ELSE /\ steps' = steps \o <<"inference", "imread">>
               /\ detected' = outcome.results
               /\ pc' = "summary"
    /\ UNCHANGED <<script, console, files, i, call_vars, replay_vars, train_vars>>

\* helloTest.py lines 75-151.
HelloSummary ==
    /\ script = "helloTest.main"
    /\ pc = "summary"
    /\ LET dogs == DogLoop(detected[1], [dog_count |-> 0, printed |-> << >>])
       IN IF dogs.dog_count > 0
          THEN /\ files' = Write(files, output_path(script),
                                 PngFile(files[image_path(script)].shape))
               /\ steps' = Append(steps, "write")
               /\ console' = console \o dogs.printed \o
                                 << Msg("found", dogs.dog_count, 0),
                                    Report("saved") >>
          ELSE /\ console' = Append(console, Report("no_detection"))
               /\ UNCHANGED <<files, steps>>
    /\ pc' = "returned"
    /\ UNCHANGED <<script, detected, i, call_vars, replay_vars, train_vars>>

\* predict_with_trained_model5.py lines 23-30.
SingleCheck ==
    /\ script = "predict_single_image"
    /\ pc = "check"
    /\ IF model_path[script] \notin DOMAIN files
       THEN /\ console' = Append(console, Report("missing_model"))
            /\ pc' = "returned"
       ELSE IF image_path(script) \notin DOMAIN files
       THEN /\ console' = Append(console, Report("missing_image"))
            /\ pc' = "returned"
       ELSE /\ console' = console
            /\ pc' = "load"
    /\ UNCHANGED <<script, steps, detected, files, i, call_vars, replay_vars, train_vars>>

\* predict_with_trained_model5.py lines 33-35.
SingleLoad ==
    /\ script = "predict_single_image"
    /\ pc = "load"
    /\ steps' = Append(steps, "load_model")
    /\ \E outcome \in Load(files, model_path[script]) :
          pc' = IF outcome = "raised" THEN "raised" ELSE "infer"
    /\ UNCHANGED <<script, console, detected, files, i, call_vars, replay_vars, train_vars>>

\* predict_with_trained_model5.py lines 38-42.
SingleInfer ==
    /\ script = "predict_single_image"
    /\ pc = "infer"
    /\ steps' = Append(steps, "inference")
    /\ \E outcome \in Inference(files, image_path(script), Classes(script)) :
          IF outcome.raised
          THEN /\ pc' = "raised"
               /\ UNCHANGED <<detected, files>>
          ELSE /\ detected' = outcome.results
               /\ files' = Mkdir(files, save_dir)
               /\ pc' = "result"
    /\ UNCHANGED <<script, console, i, call_vars, replay_vars, train_vars>>

\* predict_with_trained_model5.py lines 45-81.
SingleResult ==
    /\ script = "predict_single_image"
    /\ pc = "result"
    /\ LET s == SaveResults(detected, image_path(script),
                            [fs |-> files, done |-> << >>, printed |-> << >>])
       IN /\ files' = s.fs
          /\ steps' = steps \o s.done
          /\ console' = console \o s.printed
    /\ pc' = "returned"
    /\ UNCHANGED <<script, detected, i, call_vars, replay_vars, train_vars>>

\* predict_with_trained_model5.py lines 97-113.
BatchCheck ==
    /\ script = "predict_batch_images"
    /\ pc = "check"
    /\ IF model_path[script] \notin DOMAIN files
       THEN /\ console' = Append(console, Report("missing_model"))
            /\ pc' = "returned"
       ELSE IF image_files(files) = << >>
       THEN /\ console' = Append(console, Report("missing_image"))
            /\ pc' = "returned"
       ELSE /\ console' = console
            /\ pc' = "load"
    /\ UNCHANGED <<script, steps, detected, files, i, call_vars, replay_vars, train_vars>>

\* predict_with_trained_model5.py lines 116-125.
BatchLoad ==
    /\ script = "predict_batch_images"
    /\ pc = "load"
    /\ steps' = Append(steps, "load_model")
    /\ \E outcome \in Load(files, model_path[script]) :
          IF outcome = "raised"
          THEN pc' = "raised" /\ files' = files
          ELSE pc' = "batch" /\ files' = Mkdir(files, save_dir)
    /\ i' = 0
    /\ UNCHANGED <<script, console, detected, call_vars, replay_vars, train_vars>>

\* predict_with_trained_model5.py lines 127-144: image i + 1 of the list.
BatchImage ==
    /\ script = "predict_batch_images"
    /\ pc = "batch"
    /\ i < Len(image_files(files))
    /\ LET image_file == image_files(files)[i + 1]
       IN \E outcome \in Inference(files, image_file, Classes(script)) :
             IF outcome.raised
             THEN /\ steps' = Append(steps, "inference")
                  /\ pc' = "raised"
                  /\ UNCHANGED <<detected, files, console, i>>
             ELSE LET s == SaveResults(outcome.results, image_file,
                               [fs |-> files, done |-> << >>,
                                printed |-> << >>])
                  IN /\ steps' = Append(steps, "inference") \o s.done
                     /\ detected' = outcome.results
                     /\ files' = s.fs
                     /\ console' = console \o s.printed
                     /\ i' = i + 1
                     /\ pc' = pc
    /\ UNCHANGED <<script, call_vars, replay_vars, train_vars>>

\* predict_with_trained_model5.py lines 146-152.
BatchDone ==
    /\ script = "predict_batch_images"
    /\ pc = "batch"
    /\ i = Len(image_files(files))
    /\ console' = Append(console, Msg("done", i, 0))
    /\ pc' = "returned"
    /\ UNCHANGED <<script, steps, detected, files, i, call_vars, replay_vars, train_vars>>

\* predict_with_trained_model5.py lines 165-167.
OnnxCheck ==
    /\ script = "predict_with_onnx"
    /\ pc = "check"
    /\ IF model_path[script] \notin DOMAIN files
       THEN /\ console' = Append(console, Report("missing_model"))
            /\ pc' = "returned"
       ELSE /\ console' = console
            /\ pc' = "load"
    /\ UNCHANGED <<script, steps, detected, files, i, call_vars, replay_vars, train_vars>>

\* predict_with_trained_model5.py line 170.
OnnxLoad ==
    /\ script = "predict_with_onnx"
    /\ pc = "load"
    /\ steps' = Append(steps, "load_model")
    /\ \E outcome \in Load(files, model_path[script]) :
          pc' = IF outcome = "raised" THEN "raised" ELSE "infer"
    /\ UNCHANGED <<script, console, detected, files, i, call_vars, replay_vars, train_vars>>

\* predict_with_trained_model5.py lines 171-173: without a first result,
\* line 173 raises.
OnnxInfer ==
    /\ script = "predict_with_onnx"
    /\ pc = "infer"
    /\ steps' = Append(steps, "inference")
    /\ \E outcome \in Inference(files, image_path(script), Classes(script)) :
          IF outcome.raised \/ outcome.results = << >>
          THEN /\ pc' = "raised"
               /\ UNCHANGED <<detected, console>>
          ELSE /\ detected' = outcome.results
               /\ console' = Append(console,
                                    Msg("found", Len(outcome.results[1]), 0))
               /\ pc' = "returned"
    /\ UNCHANGED <<script, files, i, call_vars, replay_vars, train_vars>>

detection_scripts ==
    \/ DetectCheck
    \/ DetectRead
    \/ DetectContours
    \/ DetectSummary
    \/ HelloCheck
    \/ HelloLoad
    \/ HelloInfer
    \/ HelloSummary
    \/ SingleCheck
    \/ SingleLoad
    \/ SingleInfer
    \/ SingleResult
    \/ BatchCheck
    \/ BatchLoad
    \/ BatchImage
    \/ BatchDone
    \/ OnnxCheck
    \/ OnnxLoad
    \/ OnnxInfer

SpecScripts == InitScripts /\ [][detection_scripts]_vars

\* ------------------------------------------------------------ a call and its replay

\* random.random() as the draw the source hands out: thousandths.
Thousandths(r) == (r[1] * 1000) \div r[2]

\* A run of generate_red_square_image: the local state it is in, the draws
\* it has taken (those of `random` in the order it took them) and the
\* iterations it has left.
\* Lines 24-33: the three background draws (the channels the model does not
\* observe at the low end of their range) and the noise.
RunBackground(size) ==
    UNION { { [frame |-> BackgroundOf(size, ch, bg, n),
               tape  |-> [random |-> [c \in 1 .. 3 |->
                                        IF c = ch THEN bg ELSE BgRange(c)[1]],
                          noise  |-> n],
               left  |-> 0]
              : bg \in Ends(BgRange(ch)), n \in Ends(NoiseRange) }
            : ch \in ProbeChannels }

\* Lines 36-39: the count, drawn when num_squares is None.
RunCount(n, run) ==
    { [frame |-> [run.frame EXCEPT !.nrand = @ + CountDraws(n)],
       tape  |-> IF n = None
                 THEN [run.tape EXCEPT !.random = Append(@, k)]
                 ELSE run.tape,
       left  |-> k]
      : k \in SquareCounts(n) }

\* Lines 41-74: one iteration, with the draws it takes.
RunSquare(size, run) ==
    UNION {
        IF Empty(OriginRange(size, square_size))
        THEN { [frame |-> [run.frame EXCEPT !.raised = TRUE, !.nrand = @ + 1],
                tape  |-> [run.tape EXCEPT !.random = Append(@, square_size)],
                left  |-> 0] }
        ELSE { [frame |-> DrawSquare(size, run.frame, square_size, x, y,
                                     red_variations[c], r),
                tape  |-> [run.tape EXCEPT !.random =
                              @ \o <<square_size, x, y, c, Thousandths(r)>>],
                left  |-> run.left - 1]
               : x \in Ends(OriginRange(size, square_size)),
                 y \in Ends(OriginRange(size, square_size)),
                 c \in Ends(Choice(red_variations)),
                 r \in RandomSamples }
        : square_size \in Ends(RandInt(50, 200)) }

\* What a call that ended in the local state s gives its caller.
Outcome(s) == IF s.raised THEN Raised ELSE Returned(s)

RECURSIVE ReplayLoop(_, _, _, _, _)
\* Lines 41-74 fed from the draws `random` hands out from position p on.
ReplayLoop(size, s, random, p, left) ==
    IF left = 0 THEN s
    ELSE LET square_size == random[p]
         IN IF Empty(OriginRange(size, square_size))
            THEN [s EXCEPT !.raised = TRUE, !.nrand = @ + 1]
            ELSE ReplayLoop(size,
                            DrawSquare(size, s, square_size, random[p + 1],
                                       random[p + 2],
                                       red_variations[random[p + 3]],
                                       <<random[p + 4], 1000>>),
                            random, p + 5, left - 1)

\* Lines 10-74: the local state generate_red_square_image(size, n) ends in
\* when the random sources hand it the draws of tape, observed on channel ch.
Replayed(size, n, ch, tape) ==
    LET s0 == BackgroundOf(size, ch, tape.random[ch], tape.noise)
        s1 == [s0 EXCEPT !.nrand = @ + CountDraws(n)]
        count == IF n = None THEN tape.random[4] ELSE n
    IN ReplayLoop(size, s1, tape.random, 4 + CountDraws(n), count)

\* Mutant of Generate: the first square takes its two origin draws in the
\* other order.
Generate_OriginSwapped(size, n, ch, tape) ==
    LET q == 4 + CountDraws(n)
        swapped == [k \in 1 .. Len(tape.random) |->
                       IF k = q + 1 /\ Len(tape.random) >= q + 2
                       THEN tape.random[q + 2]
                       ELSE IF k = q + 2 THEN tape.random[q + 1]
                       ELSE tape.random[k]]
    IN Outcome(Replayed(size, n, ch, [tape EXCEPT !.random = swapped]))

\* Lines 10-76: what that call gives its caller.
Generate(size, n, ch, tape) == Outcome(Replayed(size, n, ch, tape))

\* The arguments <<img_size, num_squares>> explored: every explicit count on
\* a canvas the larger square does not fit in, one square on a canvas it
\* fits in, and the drawn count on the smallest canvas.
ReplayInputs ==
    { <<100, n>> : n \in 0 .. MaxSquares } \cup { <<200, 1>>, <<50, None>> }

\* A call, then the same call again on a random source that hands out the
\* same draws.
InitReplay ==
    /\ pc = "first"
    /\ \E a \in ReplayInputs :
          /\ img_size = a[1]
          /\ num_squares = a[2]
    /\ num_train = 0
    /\ num_val = 0
    /\ i = 0
    /\ frame = NoFrame
    /\ remaining = 0
    /\ result = NoResult
    /\ random_state = 0
    /\ np_random_state = 0
    /\ files = NoFiles
    /\ NoScript
    /\ NoReplay
    /\ NoTraining

\* The first call as a run.
Run == [frame |-> frame, tape |-> draws, left |-> remaining]

\* Lines 24-33 of the first call.
FirstBackground ==
    /\ pc = "first"
    /\ \E run \in RunBackground(img_size) :
          /\ frame' = run.frame
          /\ draws' = run.tape
          /\ random_state' = random_state + run.frame.nrand
          /\ np_random_state' = np_random_state + run.frame.nnp
    /\ pc' = "first_count"
    /\ UNCHANGED <<train_vars, script_vars, img_size, num_squares, num_train, num_val, i,
                   remaining, result, files, earlier>>

\* Lines 36-39 of the first call.
FirstCount ==
    /\ pc = "first_count"
    /\ \E run \in RunCount(num_squares, Run) :
          /\ frame' = run.frame
          /\ draws' = run.tape
          /\ remaining' = run.left
    /\ random_state' = random_state + CountDraws(num_squares)
    /\ pc' = "first_loop"
    /\ UNCHANGED <<train_vars, script_vars, img_size, num_squares, num_train, num_val, i,
                   result, np_random_state, files, earlier>>

\* Lines 41-74 of the first call: one iteration.
FirstSquare ==
    /\ pc = "first_loop"
    /\ remaining > 0
    /\ \E run \in RunSquare(img_size, Run) :
          /\ frame' = run.frame
          /\ draws' = run.tape
          /\ remaining' = run.left
          /\ random_state' = random_state + (run.frame.nrand - frame.nrand)
          /\ IF run.frame.raised
             THEN /\ pc' = "second"
                  /\ result' = Raised
             ELSE /\ pc' = "first_loop"
                  /\ result' = result
    /\ UNCHANGED <<train_vars, script_vars, img_size, num_squares, num_train, num_val, i,
                   np_random_state, files, earlier>>

\* Line 76 of the first call.
FirstReturn ==
    /\ pc = "first_loop"
    /\ remaining = 0
    /\ result' = Returned(frame)
    /\ pc' = "second"
    /\ UNCHANGED <<train_vars, script_vars, img_size, num_squares, num_train, num_val, i,
                   frame, remaining, random_state, np_random_state, files,
                   replay_vars>>

\* Lines 10-76: the second call, on the draws of the first.
ReplaySecond ==
    /\ pc = "second"
    /\ earlier' = result
    /\ result' = Generate(img_size, num_squares, frame.image.probe.channel,
                          draws)
    /\ random_state' = random_state + Len(draws.random)
    /\ np_random_state' = np_random_state + frame.nnp
    /\ pc' = "replayed"
    /\ UNCHANGED <<train_vars, script_vars, img_size, num_squares, num_train, num_val, i,
                   frame, remaining, files, draws>>

replay ==
    \/ FirstBackground
    \/ FirstCount
    \/ FirstSquare
    \/ FirstReturn
    \/ ReplaySecond

SpecReplay == InitReplay /\ [][replay]_vars

\* ------------------------------------------------------------ train_square_detector

\* train_custom_yolo4.py line 21.
DataYaml == Path(<< >>, "data", << >>, ".yaml")
\* train_custom_yolo4.py line 63.
TrainedPt == Path(<<"runs", "train", "square_detector", "weights">>, "best",
                  << >>, ".pt")
\* The file an export writes next to the weights.
ExportPath(format) ==
    [TrainedPt EXCEPT !.ext = IF format = "onnx" THEN ".onnx"
                                                 ELSE ".torchscript"]

\* The training results, as the mAP50 they report, in percent.
TrainResults == {0, 50, 100}

\* export_model.export(format=...): it returns the path it wrote, or raises
\* one of these exceptions.
ExportErrors == {"ImportError", "RuntimeError"}
Export(format) == {"exported"} \cup ExportErrors

\* The filesystem training starts in: the pretrained weights and the dataset
\* description present or not.
TrainFiles(weights, data) ==
    [q \in (IF weights THEN {Yolo12n} ELSE {})
              \cup (IF data THEN {DataYaml} ELSE {}) |->
        IF q = Yolo12n THEN WeightsFile ELSE TextFile(<< >>)]

InitTrain ==
    /\ script = "train_square_detector"
    /\ pc = "load"
    /\ \E weights \in BOOLEAN, data \in BOOLEAN :
          files = TrainFiles(weights, data)
    /\ console = << >>
    /\ steps = << >>
    /\ detected = << >>
    /\ i = 0
    /\ img_size = 640
    /\ num_squares = None
    /\ num_train = 0
    /\ num_val = 0
    /\ frame = NoFrame
    /\ remaining = 0
    /\ result = NoResult
    /\ random_state = 0
    /\ np_random_state = 0
    /\ NoReplay
    /\ NoTraining

\* train_custom_yolo4.py lines 13-17.
TrainLoad ==
    /\ script = "train_square_detector"
    /\ pc = "load"
    /\ \E outcome \in Load(files, Yolo12n) :
          /\ steps' = IF outcome = "loaded" THEN Append(steps, "load_model")
                      ELSE steps \o <<"download", "load_model">>
          /\ files' = IF outcome = "downloaded"
                      THEN Write(files, Yolo12n, WeightsFile)
                      ELSE files
          /\ pc' = IF outcome = "raised" THEN "raised" ELSE "train"
    /\ UNCHANGED <<script, console, detected, i, call_vars, replay_vars,
                   train_vars>>

\* train_custom_yolo4.py lines 20-59: without data.yaml the training raises;
\* a completed training has saved its best weights.
TrainRun ==
    /\ script = "train_square_detector"
    /\ pc = "train"
    /\ steps' = Append(steps, "train")
    /\ IF DataYaml \notin DOMAIN files
       THEN /\ pc' = "raised"
            /\ UNCHANGED <<results, files, console>>
       ELSE /\ \E r \in TrainResults : results' = r
            /\ files' = Write(Mkdir(files, TrainedPt.dir), TrainedPt,
                              WeightsFile)
            /\ console' = Append(console, <<"trained", "", "">>)
            /\ pc' = "reload"
    /\ UNCHANGED <<script, detected, i, call_vars, replay_vars, returned>>

\* train_custom_yolo4.py lines 61-64.
TrainReload ==
    /\ script = "train_square_detector"
    /\ pc = "reload"
    /\ steps' = Append(steps, "load_model")
    /\ \E outcome \in Load(files, TrainedPt) :
          pc' = IF outcome = "raised" THEN "raised" ELSE "onnx"
    /\ UNCHANGED <<script, console, detected, files, i, call_vars,
                   replay_vars, train_vars>>

\* One export in its try/except: the path is printed, or the exception is
\* caught and printed.
TryExport(format) ==
    \E outcome \in Export(format) :
        IF outcome = "exported"
        THEN /\ steps' = Append(steps, format)
             /\ files' = Write(files, ExportPath(format), WeightsFile)
             /\ console' = Append(console, <<"exported", format, "">>)
        ELSE /\ steps' = steps \o <<format, outcome>>
             /\ files' = files
             /\ console' = Append(console, <<"export_failed", format, outcome>>)

\* Mutant of ExportOnnx: the exception of a failed export is not caught.
ExportOnnx_Uncaught ==
    /\ script = "train_square_detector"
    /\ pc = "onnx"
    /\ TryExport("onnx")
    /\ pc' = IF steps'[Len(steps')] \in ExportErrors THEN "raised"
             ELSE "torchscript"
    /\ UNCHANGED <<script, detected, i, call_vars, replay_vars, train_vars>>

\* train_custom_yolo4.py lines 66-71.
ExportOnnx ==
    /\ script = "train_square_detector"
    /\ pc = "onnx"
    /\ TryExport("onnx")
    /\ pc' = "torchscript"
    /\ UNCHANGED <<script, detected, i, call_vars, replay_vars, train_vars>>

\* train_custom_yolo4.py lines 73-78.
ExportTorchScript ==
    /\ script = "train_square_detector"
    /\ pc = "torchscript"
    /\ TryExport("torchscript")
    /\ pc' = "summary"
    /\ UNCHANGED <<script, detected, i, call_vars, replay_vars, train_vars>>

\* train_custom_yolo4.py lines 80-86.
TrainReturn ==
    /\ script = "train_square_detector"
    /\ pc = "summary"
    /\ returned' = results
    /\ pc' = "returned"
    /\ UNCHANGED <<script, console, steps, detected, files, i, call_vars,
                   replay_vars, results>>

train_square_detector ==
    \/ TrainLoad
    \/ TrainRun
    \/ TrainReload
    \/ ExportOnnx
    \/ ExportTorchScript
    \/ TrainReturn

SpecTrain == InitTrain /\ [][train_square_detector]_vars

\* ------------------------------------------------------------ claims about a direct call

\* The boxes painted so far and their annotations, held by the running call.
Boxes == frame.image.boxes
Side(box) == box[2][1] - box[1][1]

\* C1: generate_red_square_image never raises, for every img_size >= 50,
\* every num_squares >= 0 or omitted and every outcome of the draws.
C1_NeverRaises == pc # "raised"

\* C2: the number of annotations equals the number of squares painted; a
\* returned call has exactly num_squares of them when num_squares >= 0 is
\* given (none, and no square, for 0) and 1, 2 or 3 when it is omitted, each
\* of the three being a possible draw.
C2_AnnotationCount ==
    /\ Len(frame.labels) = Len(Boxes)
    /\ pc = "count" /\ num_squares = None =>
          \A k \in 1 .. 3 : ENABLED (GenCount /\ remaining' = k)
    /\ pc = "done" =>
          /\ Len(result.labels) = Len(result.image.boxes)
          /\ num_squares # None => Len(result.labels) = num_squares
          /\ num_squares = None => Len(result.labels) \in 1 .. 3

\* C2 witness: a call given num_squares = 0 returned a canvas without squares
\* and an empty annotation list.
C2_Witness ==
    /\ pc = "done"
    /\ num_squares = 0
    /\ result.status = "returned"
    /\ result.labels = << >>
    /\ result.image.boxes = << >>

\* C3: every square painted has its box [origin, origin + size] inside
\* [0, img_size] on both axes, with a side in 50..200.
C3_ShapesInsideCanvas ==
    \A k \in 1 .. Len(Boxes) :
        /\ 0 <= Boxes[k][1][1]
        /\ 0 <= Boxes[k][1][2]
        /\ Boxes[k][2][1] <= img_size
        /\ Boxes[k][2][2] <= img_size
        /\ Side(Boxes[k]) = Boxes[k][2][2] - Boxes[k][1][2]
        /\ Side(Boxes[k]) \in 50 .. 200

\* C3 witness: a returned canvas holds a square away from the origin whose
\* far corner is the canvas corner.
C3_Witness ==
    /\ pc = "done"
    /\ \E k \in 1 .. Len(result.image.boxes) :
          /\ result.image.boxes[k][1][1] > 0
          /\ result.image.boxes[k][1][2] > 0
          /\ result.image.boxes[k][2] = <<img_size, img_size>>

\* C4 as stated: every annotation has its four coordinates strictly inside
\* (0, 1), for every img_size >= 50.
C4_StrictlyInsideUnit ==
    \A k \in 1 .. Len(frame.labels) :
        \A c \in 2 .. 5 :
            /\ FLt(IntF(0), frame.labels[k][c])
            /\ FLt(frame.labels[k][c], IntF(1))

\* C4 amended: the centre coordinates are strictly inside (0, 1); the width
\* and the height are equal and in (0, 1], and they are 1 exactly when the
\* square is as large as the canvas, which needs img_size <= 200.
C4_InsideUnitClosed ==
    \A k \in 1 .. Len(frame.labels) :
        /\ \A c \in 2 .. 3 :
              /\ FLt(IntF(0), frame.labels[k][c])
              /\ FLt(frame.labels[k][c], IntF(1))
        /\ \A c \in 4 .. 5 :
              /\ FLt(IntF(0), frame.labels[k][c])
              /\ FLe(frame.labels[k][c], IntF(1))
              /\ FEq(frame.labels[k][c], IntF(1)) <=> Side(Boxes[k]) = img_size
        /\ FEq(frame.labels[k][4], frame.labels[k][5])
        /\ img_size > 200 => FLt(frame.labels[k][4], IntF(1))

\* C4 witness: a returned annotation of width 1.
C4_Witness ==
    /\ pc = "done"
    /\ \E k \in 1 .. Len(result.labels) : FEq(result.labels[k][4], IntF(1))

\* C5: the k-th annotation describes the k-th square painted and nothing
\* else: class 0, centre (origin + size/2)/img_size on each axis, width and
\* height size/img_size, with 0 < width <= 200/img_size.
C5_AnnotationOfSquare ==
    /\ Len(frame.labels) = Len(Boxes)
    /\ \A k \in 1 .. Len(Boxes) :
          LET x == Boxes[k][1][1]
              y == Boxes[k][1][2]
              side == Side(Boxes[k])
              label == frame.labels[k]
          IN /\ label[1] = 0
             /\ FEq(label[2], <<2 * x + side, 2 * img_size>>)
             /\ FEq(label[3], <<2 * y + side, 2 * img_size>>)
             /\ FEq(label[4], <<side, img_size>>)
             /\ FEq(label[5], <<side, img_size>>)
             /\ FLt(IntF(0), label[4])
             /\ FLe(label[4], <<200, img_size>>)
    /\ pc = "done" => result.labels = frame.labels /\ result.image = frame.image

\* C5 witness: a call returned two different squares with their annotations.
C5_Witness ==
    /\ pc = "done"
    /\ Len(result.labels) >= 2
    /\ result.labels[1] # result.labels[2]
    /\ result.image.boxes[1] # result.image.boxes[2]

\* C6: after the noise every channel of every pixel is an integer in
\* [0, 255], the background value plus the noise saturated at 0 and at 255,
\* never wrapped around modulo 256.
C6_NoiseSaturates ==
    LET p == frame.image.probe
        sum == p.bg + p.noise
    IN /\ p.value \in 0 .. 255
       /\ sum > 255 => p.value = 255
       /\ sum < 0 => p.value = 0
       /\ sum \in 0 .. 255 => p.value = sum

\* C6 witness: a background value and a noise value whose sum exceeds 255.
C6_Witness ==
    /\ pc = "done"
    /\ result.image.probe.bg + result.image.probe.noise > 255
    /\ result.image.probe.value = 255

Running == pc \in {"generate", "count", "loop"}

SplitSize(split) == IF split = "train" THEN num_train ELSE num_val

\* A printed number of millionths is the nearest to the float it prints.
Nearest(millionths, v) ==
    LET d == millionths * v[2] - v[1] * 1000000
    IN 2 * d <= v[2] /\ -(2 * d) <= v[2]

\* Sample i - 1 of the running split has just been saved: its image file is
\* a picture of the canvas's shape, and its label file holds one line per
\* annotation returned for it, in order: class 0 and the four coordinates.
C9_LastSaved ==
    pc \in {"train", "val"} /\ i > 0 =>
        /\ ImagePath(pc, i - 1) \in DOMAIN files
        /\ files[ImagePath(pc, i - 1)].kind = "jpeg"
        /\ files[ImagePath(pc, i - 1)].shape = <<img_size, img_size, 3>>
        /\ LabelPath(pc, i - 1) \in DOMAIN files
        /\ LET f == files[LabelPath(pc, i - 1)]
           IN /\ f.kind = "text"
              /\ Len(f.lines) = Len(result.labels)
              /\ \A k \in 1 .. Len(f.lines) :
                    /\ Len(f.lines[k]) = 5
                    /\ f.lines[k][1] = 0
                    /\ \A c \in 2 .. 5 :
                          Nearest(f.lines[k][c], result.labels[k][c])

\* save_dataset has completed: each index below the split's size has its
\* image file and its label file, named <split>_<4 digits> with the digits
\* of the index, and different indices have different files.
C9_AllSaved ==
    pc = "saved" =>
        \A split \in {"train", "val"} :
            /\ \A n \in 0 .. (SplitSize(split) - 1) :
                  /\ ImagePath(split, n) \in DOMAIN files
                  /\ files[ImagePath(split, n)].kind = "jpeg"
                  /\ LabelPath(split, n) \in DOMAIN files
                  /\ files[LabelPath(split, n)].kind = "text"
                  /\ Len(files[LabelPath(split, n)].lines) \in 1 .. 3
                  /\ ImagePath(split, n).stem = split
                  /\ ImagePath(split, n).ext = ".jpg"
                  /\ LabelPath(split, n).stem = split
                  /\ LabelPath(split, n).ext = ".txt"
                  /\ LabelPath(split, n).index = ImagePath(split, n).index
                  /\ ImagePath(split, n).index =
                         << (n \div 1000) % 10, (n \div 100) % 10,
                            (n \div 10) % 10, n % 10 >>
            /\ Cardinality({ ImagePath(split, n)
                             : n \in 0 .. (SplitSize(split) - 1) })
                   = SplitSize(split)
            /\ Cardinality({ LabelPath(split, n)
                             : n \in 0 .. (SplitSize(split) - 1) })
                   = SplitSize(split)

\* A step of save_dataset removes no file, and changes only the files of the
\* sample it is saving.
C9_Kept ==
    \A q \in DOMAIN files :
        /\ q \in DOMAIN files'
        /\ files'[q] # files[q] =>
              \/ pc \in {"train", "val"}
                    /\ q \in {ImagePath(pc, i), LabelPath(pc, i)}
              \/ pc = "test" /\ q = TestPath(i)

\* C9: after save_dataset completes, every index of each split has exactly
\* one image file <split>_<4-digit index>.jpg and one label file of the same
\* name with .txt; a label file holds one line per annotation returned for
\* its image, in order, each class 0 then centre x, centre y, width, height;
\* distinct indices have distinct files.
C9_OneFilePairPerSample ==
    [][C9_LastSaved' /\ C9_AllSaved' /\ C9_Kept]_vars

\* C9 witness: save_dataset completed with a training sample whose label
\* file holds several different lines, in place of an older file.
C9_Witness ==
    /\ pc = "saved"
    /\ num_train = 1
    /\ Len(files[LabelPath("train", 0)].lines) = 2
    /\ files[LabelPath("train", 0)].lines[1]
           # files[LabelPath("train", 0)].lines[2]
    /\ files[ImagePath("train", 0)].shape = <<200, 200, 3>>

\* ------------------------------------------------------------ claims about the detection scripts

\* A detection script is running.
Scripting == script # "none" /\ pc \notin {"returned", "raised"}

\* The steps the scripts are said not to take after a condition is found.
LaterSteps == {"load_model", "inference", "write"}
Later(ops) == SelectSeq(ops, LAMBDA op : op \in LaterSteps)

\* What a result counts: squares of area >= 500, dogs, or every box.
Counted(name, found) ==
    IF name = "detect_red_square"
    THEN SquareLoop(found, [square_count |-> 0, printed |-> << >>]).square_count
    ELSE IF name = "helloTest.main"
    THEN DogLoop(found, [dog_count |-> 0, printed |-> << >>]).dog_count
    ELSE Len(found)

\* The conditions the running script has met: its input image (for a batch:
\* every image) is missing; its weights are missing; it has tried to decode
\* an input image that does not decode; its latest search gave a result that
\* counts nothing.
Conditions ==
    LET inputs == IF script = "predict_batch_images"
                  THEN { image_files(files)[k]
                         : k \in 1 .. Len(image_files(files)) }
                  ELSE { image_path(script) } \cap DOMAIN files
    IN { c \in {"missing_image", "missing_model", "decode_failure",
                "no_detection"} :
           \/ c = "missing_image" /\ inputs = {}
           \/ c = "missing_model"
                 /\ script \in DOMAIN model_path
                 /\ model_path[script] \notin DOMAIN files
           \/ c = "decode_failure"
                 /\ \E q \in inputs : ~Decodable(files[q])
                 /\ \E k \in 1 .. Len(steps) :
                       steps[k] \in {"imread", "inference"}
           \/ c = "no_detection"
                 /\ \E k \in 1 .. Len(detected) :
                       Counted(script, detected[k]) = 0 }

\* C10: in each of the five scripts, a missing input image, missing weights,
\* an undecodable image and an empty detection are reported on the console
\* and end the script by a return, not an exception: once the script has met
\* one of them no step loads the model, runs an inference or writes an
\* output file, and the step that ends the script returns, with one of them
\* reported, and does not raise.
C10_ReportedThenReturned ==
    [][Scripting =>
          /\ Conditions # {} => Later(steps') = Later(steps)
          /\ Conditions' # {} =>
                /\ pc' # "raised"
                /\ pc' = "returned" =>
                      \E c \in Conditions', k \in 1 .. Len(console') :
                          console'[k] = Report(c)]_vars

\* ------------------------------------------------------------ claims about a replayed call

FoundContours == IF detected = << >> THEN << >> ELSE detected[1]
LargeContours == SelectSeq(FoundContours, LAMBDA area : area >= 500)
\* The messages it printed about single regions.
SquareMessages == SelectSeq(console, LAMBDA msg : msg[1] = "square")

\* C12: detect_red_square counts exactly the contours of area >= 500 (499 is
\* skipped, 500 is counted) and numbers them 1..k in contour order whatever
\* was skipped between them; it writes the output image if and only if
\* k > 0, and with k = 0 it reports that nothing was detected and writes no
\* file.
C12_CountsLargeContours ==
    script = "detect_red_square" =>
        LET k == Len(LargeContours)
        IN /\ pc \in {"summary", "returned"} /\ detected # << >> =>
                 /\ Len(SquareMessages) = k
                 /\ \A j \in 1 .. k :
                       SquareMessages[j] = Msg("square", j, LargeContours[j])
                 /\ \A j \in 1 .. Len(FoundContours) :
                       /\ FoundContours[j] = 499 =>
                             \A m \in 1 .. k : SquareMessages[m][3] # 499
                       /\ FoundContours[j] = 500 =>
                             \E m \in 1 .. k : SquareMessages[m][3] = 500
           /\ pc = "returned" /\ detected # << >> =>
                 /\ output_path(script) \in DOMAIN files <=> k > 0
                 /\ (\E n \in 1 .. Len(steps) : steps[n] = "write") <=> k > 0
                 /\ (\E n \in 1 .. Len(console) :
                        console[n] = Msg("found", k, 0)) <=> k > 0
                 /\ (\E n \in 1 .. Len(console) :
                        console[n] = Report("no_detection")) <=> k = 0
           /\ pc # "returned" => output_path(script) \notin DOMAIN files

\* C12 witness: of two contours the first, of area 499, was skipped and the
\* second, of area 500, was counted as region 1 and the output written.
C12_Witness ==
    /\ script = "detect_red_square"
    /\ pc = "returned"
    /\ detected = << <<499, 500>> >>
    /\ SquareMessages = << Msg("square", 1, 500) >>
    /\ output_path(script) \in DOMAIN files

\* ------------------------------------------------------------ claims about the colours painted

\* C13: every colour handed to cv2.rectangle, the fill and the border (the
\* fill with 50 taken off each channel), is a valid 8-bit colour: each of its
\* channels lies in [0, 255].
C13_BorderColourValid ==
    \A k \in 1 .. Len(frame.painted) :
        \A c \in 1 .. 3 : frame.painted[k].color[c] \in 0 .. 255

\* ------------------------------------------------------------ claims about train_square_detector

\* The position in `steps` of the attempt to export a format (0: none), and
\* whether that attempt raised.
Attempt(format) ==
    IF \E k \in 1 .. Len(steps) : steps[k] = format
    THEN CHOOSE k \in 1 .. Len(steps) : steps[k] = format
    ELSE 0
Failed(format) ==
    /\ Attempt(format) > 0
    /\ Attempt(format) < Len(steps)
    /\ steps[Attempt(format) + 1] \in ExportErrors
\* The training has completed.
Trained == \E k \in 1 .. Len(steps) : steps[k] = "train" /\ results # None

\* C14: once training has completed, the ONNX export is attempted first and
\* the TorchScript export after it whether or not the ONNX export raised;
\* each export is attempted once; a failed export is reported with its
\* exception and writes no file, a successful one is reported with its file;
\* and the function returns the training results and does not raise.
C14_BothExportsThenReturn ==
    script = "train_square_detector" /\ Trained =>
        /\ pc # "raised"
        /\ Attempt("torchscript") > 0 =>
              /\ Attempt("onnx") > 0
              /\ Attempt("onnx") < Attempt("torchscript")
        /\ pc \in {"torchscript", "summary", "returned"} => Attempt("onnx") > 0
        /\ pc \in {"summary", "returned"} => Attempt("torchscript") > 0
        /\ \A format \in {"onnx", "torchscript"} :
              /\ Cardinality({ k \in 1 .. Len(steps) : steps[k] = format }) <= 1
              /\ Attempt(format) > 0 =>
                    /\ Failed(format) <=>
                          \E k \in 1 .. Len(console) :
                              /\ console[k][1] = "export_failed"
                              /\ console[k][2] = format
                              /\ console[k][3] \in ExportErrors
                    /\ ~Failed(format) <=>
                          \E k \in 1 .. Len(console) :
                              /\ console[k][1] = "exported"
                              /\ console[k][2] = format
                    /\ Failed(format) <=> ExportPath(format) \notin DOMAIN files
        /\ pc = "returned" => returned = results /\ returned \in TrainResults
        /\ pc # "returned" => returned = None

\* C14 witness: the function returned the training results after the ONNX
\* export raised and the TorchScript export succeeded.
C14_Witness ==
    /\ script = "train_square_detector"
    /\ pc = "returned"
    /\ returned = 50
    /\ Failed("onnx")
    /\ ~Failed("torchscript")
    /\ ExportPath("torchscript") \in DOMAIN files

====
